---- MODULE Spec2Model ----
(***************************************************************************)
(* Model of qats/signal.py: crossing and peak analysis (average_frequency, *)
(* find_maxima), autocorrelation, smooth and the FFT filters (lowpass,     *)
(* highpass, bandpass, bandblock, threshold).                              *)
(*                                                                         *)
(* Arrays are TLA+ sequences; positions reported by the model (crossing    *)
(* indices, maxima indices) are the 0-based positions numpy uses, so       *)
(* At(x, i) is x[i].  Samples are small integers: comparisons with the     *)
(* mean are done as n * x[i] against sum(x), which is exact for them.      *)
(* Crossings, maxima and smoothing commute with a shift of the samples,    *)
(* so the samples are drawn from 0 .. MaxVal.                              *)
(***************************************************************************)
EXTENDS Integers, Sequences, FiniteSets, TLC

VARIABLES x, pc, call, ret, acf, passes

vars == <<x, pc, call, ret, acf, passes>>

\* ---- bounds of the model ----
MaxLen == 5
MaxVal == 2
MaxDt == 2
MaxWin == 4
MaxPasses == 2
MaxFftLen == 3
MaxImag == 1
MaxCut == 2
MaxFrac == 2

Vals == 0..MaxVal
Signals == UNION {[1..n -> Vals] : n \in 0..MaxLen}
BOOL == {TRUE, FALSE}

\* ---- numpy helpers ----
At(s, i) == s[i + 1]

RECURSIVE Sum(_)
Sum(s) == IF Len(s) = 0 THEN 0 ELSE s[1] + Sum(Tail(s))

\* x[start:stop] for 0 <= start <= stop <= len(x)
Slice(s, start, stop) == [k \in 1..(stop - start) |-> s[start + k]]

\* np.diff
Diff(s) == [k \in 1..(Len(s) - 1) |-> s[k + 1] - s[k]]

SetMax(S) == CHOOSE m \in S : \A e \in S : e <= m
SetMin(S) == CHOOSE m \in S : \A e \in S : m <= e

RECURSIVE SortedSeqOf(_)
SortedSeqOf(S) == IF S = {} THEN <<>> ELSE <<SetMin(S)>> \o SortedSeqOf(S \ {SetMin(S)})

\* np.where(s == v)[0]: the 0-based positions holding v, ascending
Where(s, v) == SortedSeqOf({k - 1 : k \in {j \in 1..Len(s) : s[j] = v}})

\* s.max() and np.argmax(s) (first occurrence) of a non-empty array
ArrMax(s) == SetMax({s[k] : k \in 1..Len(s)})
ArgMax(s) == SetMin({k \in 1..Len(s) : s[k] = ArrMax(s)}) - 1

\* 1 * (x_ > 0.) and 1 * (x_ < 0.) with x_ = x - np.mean(x)
AboveMean(s) == [k \in 1..Len(s) |-> IF Len(s) * s[k] > Sum(s) THEN 1 ELSE 0]
BelowMean(s) == [k \in 1..Len(s) |-> IF Len(s) * s[k] < Sum(s) THEN 1 ELSE 0]

\* crossings[crossings != indicator] = 0
KeepOnly(s, indicator) == [k \in 1..Len(s) |-> IF s[k] = indicator THEN s[k] ELSE 0]

Indicator(up) == IF up THEN 1 ELSE -1

\* the crossings array shared by average_frequency and find_maxima
Crossings(s, up) == KeepOnly(Diff(IF up THEN AboveMean(s) ELSE BelowMean(s)), Indicator(up))

\* np.where(crossings == indicator)[0] + 1
CrossingIndices(s, up) ==
    LET w == Where(Crossings(s, up), Indicator(up))
    IN  [k \in 1..Len(w) |-> w[k] + 1]

Abs(n) == IF n < 0 THEN -n ELSE n

\* ---- average_frequency ----
TimeVector(n, dt) == [k \in 1..n |-> (k - 1) * dt]

average_frequency(t, s, up) ==
    LET crossings == Crossings(s, up)
        i == CrossingIndices(s, up)
        count == Abs(Sum(crossings))
    IN  IF Len(i) = 0
        THEN [status |-> "error", err |-> "IndexError"]
        ELSE IF count - 1 = 0
             THEN [status |-> "nan"]
             ELSE [status |-> "ok",
                   num |-> count - 1,
                   den |-> At(t, i[Len(i)]) - At(t, i[1])]

\* ---- find_maxima ----
NoThreshold == [type |-> "None", val |-> 0]
Thresholds == {NoThreshold} \cup [type : {"float", "int"}, val : Vals]

AppendLast(ci, n) == IF ci[Len(ci)] < n - 1 THEN Append(ci, n - 1) ELSE ci

\* maxima = np.zeros(n_crossings), filled for each pair of consecutive crossing indices
GlobalMaxima_short(s, ci, n_crossings) ==
    [j \in 1..n_crossings |->
        IF j <= Len(ci) - 2 THEN ArrMax(Slice(s, ci[j], ci[j + 1])) ELSE 0]
GlobalMaxima(s, ci, n_crossings) ==
    [j \in 1..n_crossings |->
        IF j <= Len(ci) - 1 THEN ArrMax(Slice(s, ci[j], ci[j + 1])) ELSE 0]

GlobalIndices(s, ci, n_crossings) ==
    [j \in 1..n_crossings |->
        IF j <= Len(ci) - 1 THEN ci[j] + ArgMax(Slice(s, ci[j], ci[j + 1])) ELSE 0]

LocalIndices(s) ==
    LET ds == Append([k \in 1..(Len(s) - 1) |-> IF s[k + 1] - s[k] < 0 THEN 1 ELSE 0], 0)
        d2s == <<0>> \o Diff(ds)
    IN  Where(d2s, 1)

LocalMaxima(s) == [k \in 1..Len(LocalIndices(s)) |-> At(s, LocalIndices(s)[k])]

\* the positions (1-based, ascending) of the maxima kept by the threshold
AboveThreshold_strict(maxima, threshold) ==
    SortedSeqOf({k \in 1..Len(maxima) : maxima[k] > threshold.val})
AboveThreshold(maxima, threshold) ==
    SortedSeqOf({k \in 1..Len(maxima) : maxima[k] >= threshold.val})

\* np.argsort: every permutation that puts the values in ascending order
ArgSort(m) ==
    {p \in [1..Len(m) -> 1..Len(m)] :
        /\ \A a, b \in 1..Len(m) : a # b => p[a] # p[b]
        /\ \A a, b \in 1..Len(m) : a < b => m[p[a]] <= m[p[b]]}

Permute(s, p) == [k \in 1..Len(p) |-> s[p[k]]]

Returned(maxima, indices, retind) ==
    [status |-> "ok", maxima |-> maxima, indices |-> IF retind THEN indices ELSE <<>>]

\* "no global or local maxima if the signal crosses mean only once"
TooFewCrossings_once(n_crossings) == n_crossings < 1
TooFewCrossings(n_crossings) == n_crossings < 2

\* the set of outcomes of find_maxima(x, local, threshold, up, retind)
find_maxima(s, local, threshold, up, retind) ==
    LET n_crossings == Sum(Crossings(s, up))
    IN  IF TooFewCrossings(n_crossings)
        THEN {Returned(<<>>, <<>>, retind)}
        ELSE
          LET ci == AppendLast(CrossingIndices(s, up), Len(s))
              maxima0 == IF local THEN LocalMaxima(s) ELSE GlobalMaxima(s, ci, n_crossings)
              indices0 == IF local THEN LocalIndices(s) ELSE GlobalIndices(s, ci, n_crossings)
          IN  IF threshold.type = "int"
              THEN {[status |-> "error", err |-> "TypeError"]}
              ELSE
                LET keep == IF threshold.type = "float"
                            THEN AboveThreshold(maxima0, threshold)
                            ELSE [k \in 1..Len(maxima0) |-> k]
                    maxima1 == Permute(maxima0, keep)
                    indices1 == Permute(indices0, keep)
                IN  {Returned(Permute(maxima1, p), Permute(indices1, p), retind) :
                        p \in ArgSort(maxima1)}

\* ---- autocorrelation ----
\* a coefficient is NaN or a number of thousandths (round(acf_lag, 3))
NaN == [nan |-> TRUE, milli |-> 0]
Milli(v) == [nan |-> FALSE, milli |-> v]

\* np.rint of a / b for b > 0: nearest integer, halves to the even neighbour
RoundDiv(a, b) ==
    LET q == (2 * a + b) \div (2 * b)
    IN  IF (2 * a + b) % (2 * b) = 0 /\ q % 2 # 0 THEN q - 1 ELSE q

\* n * (data - mean), which keeps the deviations integral
Deviations(s) == [k \in 1..Len(s) |-> Len(s) * s[k] - Sum(s)]

\* sum((data[:n - h] - mean) * (data[h:] - mean)), in units of 1 / n^2
LagProduct(s, h) ==
    LET d == Deviations(s)
    IN  Sum([k \in 1..(Len(s) - h) |-> d[k] * d[k + h]])

\* r(h): the coefficient of lag h, NaN when c0 = 0
r(s, h) ==
    IF LagProduct(s, 0) = 0
    THEN NaN
    ELSE Milli(RoundDiv(1000 * LagProduct(s, h), LagProduct(s, 0)))

\* x = np.arange(n): the lags the map object runs over
Lags(n) == [k \in 1..n |-> k - 1]

\* acf = map(r, x): an iterator over the lags, with the position of its next item
autocorrelation(s) == [lags |-> Lags(Len(s)), pos |-> 1]

\* ---- smooth ----
Windows == {"rectangular", "hanning", "hamming", "bartlett", "blackman"}
WindowNames == Windows \cup {"kaiser"}
Modes == {"same", "valid", "full"}

\* s[start:stop:-1] with Python's clipping of the bounds
RevSlice(s, start, stop) ==
    LET n == Len(s)
        a0 == IF start < 0 THEN start + n ELSE start
        a == IF a0 < 0 THEN -1 ELSE IF a0 >= n THEN n - 1 ELSE a0
        b0 == IF stop < 0 THEN stop + n ELSE stop
        b == IF b0 < 0 THEN -1 ELSE IF b0 >= n THEN n - 1 ELSE b0
    IN  [k \in 1..(a - b) |-> At(s, a - k + 1)]

\* s[start:stop] with Python's clipping of the bounds
FwdSlice(s, start, stop) ==
    LET n == Len(s)
        a0 == IF start < 0 THEN start + n ELSE start
        a == IF a0 < 0 THEN 0 ELSE IF a0 > n THEN n ELSE a0
        b0 == IF stop < 0 THEN stop + n ELSE stop
        b == IF b0 < 0 THEN 0 ELSE IF b0 > n THEN n ELSE b0
    IN  [k \in 1..(b - a) |-> At(s, a + k - 1)]

\* 1000 * cos(2 * pi * k / m) for k = 0 .. m - 1, to the nearest unit
CosTable(m) ==
    CASE m = 1 -> <<1000>>
      [] m = 2 -> <<1000, -1000>>
      [] m = 3 -> <<1000, -500, -500>>
      [] m = 4 -> <<1000, 0, -1000, 0>>
      [] m = 5 -> <<1000, 309, -809, -809, 309>>
      [] m = 6 -> <<1000, 500, -500, -1000, -500, 500>>

CosMilli(k, m) == At(CosTable(m), k % m)

\* the window weights, each window in its own integer unit (smooth divides by w.sum())
WindowWeights(window, M) ==
    [k \in 1..M |->
        CASE window = "rectangular" -> 1
          [] window = "bartlett" -> (M - 1) - Abs(2 * (k - 1) - (M - 1))
          [] window = "hanning" -> 1000 - CosMilli(k - 1, M - 1)
          [] window = "hamming" -> 54000 - 46 * CosMilli(k - 1, M - 1)
          [] window = "blackman" -> 42000 - 50 * CosMilli(k - 1, M - 1)
                                          + 8 * CosMilli(2 * (k - 1), M - 1)]

\* np.convolve(v, a, mode) for len(a) >= len(v) >= 1
ConvolveFull(v, a) ==
    [k \in 1..(Len(a) + Len(v) - 1) |->
        Sum([j \in 1..Len(v) |->
                IF k - j + 1 >= 1 /\ k - j + 1 <= Len(a) THEN v[j] * a[k - j + 1] ELSE 0])]

Convolve(v, a, mode) ==
    LET full == ConvolveFull(v, a)
    IN  CASE mode = "full" -> full
          [] mode = "same" -> FwdSlice(full, (Len(v) - 1) \div 2, (Len(v) - 1) \div 2 + Len(a))
          [] mode = "valid" -> FwdSlice(full, Len(v) - 1, Len(a))

Scale(c, s) == [k \in 1..Len(s) |-> c * s[k]]
Minus(c, s) == [k \in 1..Len(s) |-> c - s[k]]

\* the padded signal of the modes other than 'valid'
Padded(s, window_len) ==
    Minus(2 * At(s, 0), RevSlice(s, window_len, 1))
        \o s \o Minus(2 * At(s, Len(s) - 1), RevSlice(s, -1, -window_len))

\* the padded signal of mode 'valid'
Reflected(s, window_len) ==
    RevSlice(s, window_len - 1, 0) \o s \o RevSlice(s, -1, -window_len)

\* y[window_len - 1:-window_len + 1]
Trim(y, window_len) == FwdSlice(y, window_len - 1, -window_len + 1)

\* a smoothed signal is the samples y[k] / den; evaluated is the window name
\* handed to eval ("none" when eval was not called)
Smoothed(y, den, evaluated) == [status |-> "ok", y |-> y, den |-> den, evaluated |-> evaluated]

SmoothError(err, evaluated) == [status |-> "error", err |-> err, evaluated |-> evaluated]

\* if window_len < 3: return x
NoSmoothing_two(window_len) == window_len < 2
NoSmoothing(window_len) == window_len < 3

\* if window not in ('rectangular', 'hanning', 'hamming', 'bartlett', 'blackman'): raise
KnownWindow_any(window) == TRUE
KnownWindow(window) == window \in Windows

\* the names for which eval('np.' + window + '(window_len)') returns a window
NumpyWindows == {"hanning", "hamming", "bartlett", "blackman"}

smooth(s, ndim, window_len, window, mode) ==
    IF ndim # 1 THEN SmoothError("ValueError", "none")
    ELSE IF Len(s) < window_len THEN SmoothError("ValueError", "none")
    ELSE IF NoSmoothing(window_len) THEN Smoothed(s, 1, "none")
    ELSE IF ~KnownWindow(window) THEN SmoothError("ValueError", "none")
    ELSE IF window # "rectangular" /\ window \notin NumpyWindows
         THEN SmoothError("TypeError", window)
    ELSE LET w == WindowWeights(window, window_len)
             evaluated == IF window = "rectangular" THEN "none" ELSE window
         IN  IF mode = "valid"
             THEN Smoothed(Convolve(w, Reflected(s, window_len), mode), Sum(w), evaluated)
             ELSE Smoothed(Trim(Convolve(w, Padded(s, window_len), mode), window_len),
                           Sum(w), evaluated)

\* ---- FFT filters ----
\* A complex sample is <<re, im>>.  Transforms of length 1, 2 and 4 are exact
\* on integer samples (the roots of unity are 1, -1, i, -i); the inverse
\* transforms are kept multiplied by nfft, which the result carries as den.
CAdd(a, b) == <<a[1] + b[1], a[2] + b[2]>>
CMul(a, b) == <<a[1] * b[1] - a[2] * b[2], a[1] * b[2] + a[2] * b[1]>>
CScale(c, a) == <<c * a[1], c * a[2]>>

RECURSIVE CSum(_)
CSum(zs) == IF Len(zs) = 0 THEN <<0, 0>> ELSE CAdd(zs[1], CSum(Tail(zs)))

\* exp(-2 pi i e / nfft) for e >= 0 and nfft in {1, 2, 4}
Twiddle(e, nfft) ==
    LET q == ((4 \div nfft) * e) % 4
    IN  CASE q = 0 -> <<1, 0>>
          [] q = 1 -> <<0, -1>>
          [] q = 2 -> <<-1, 0>>
          [] q = 3 -> <<0, 1>>

\* fft(z): X[k] = sum_n z[n] exp(-2 pi i k n / N)
Dft(z) ==
    [k \in 1..Len(z) |->
        CSum([n \in 1..Len(z) |-> CMul(z[n], Twiddle((k - 1) * (n - 1), Len(z)))])]

\* N * ifft(Y)
InvDft(Y) ==
    [n \in 1..Len(Y) |->
        CSum([k \in 1..Len(Y) |->
                CMul(Y[k], Twiddle((Len(Y) - (k - 1)) * (n - 1), Len(Y)))])]

\* int(pow(2, np.ceil(np.log(n) / np.log(2)))) for n >= 1
RECURSIVE NextPow2(_)
NextPow2(n) == IF n <= 1 THEN 1 ELSE 2 * NextPow2((n + 1) \div 2)

\* log(0) is -inf and pow(2, -inf) is 0
Nfft(n) == IF n = 0 THEN 0 ELSE NextPow2(n)

\* the transforms take the first nfft samples, padded with zeros
ZeroPad(z, nfft) == [k \in 1..nfft |-> IF k <= Len(z) THEN z[k] ELSE <<0, 0>>]

\* scipy.fftpack.rfft: [y(0), Re y(1), Im y(1), ..., Re y(N/2)]
Rfft(z) ==
    LET X == Dft(z)
    IN  [j \in 1..Len(z) |->
            IF j = 1 THEN X[1][1]
            ELSE IF (j - 1) % 2 = 1 THEN X[(j \div 2) + 1][1]
            ELSE X[(j \div 2) + 1][2]]

\* N * scipy.fftpack.irfft of a packed array
Irfft(p) ==
    LET N == Len(p)
        Y == [k \in 1..N |->
                LET k0 == k - 1
                IN  IF k0 = 0 THEN <<p[1], 0>>
                    ELSE IF 2 * k0 < N THEN <<At(p, 2 * k0 - 1), At(p, 2 * k0)>>
                    ELSE IF 2 * k0 = N THEN <<At(p, N - 1), 0>>
                    ELSE <<At(p, 2 * (N - k0) - 1), -At(p, 2 * (N - k0))>>]
    IN  InvDft(Y)

\* the bin number k of the frequency k / (nfft * dt) at position j of
\* rfftfreq(nfft, dt), and of its absolute value at position j of fftfreq(nfft, dt)
RfftBin(j, nfft) == (j + 1) \div 2
FftBin(j, nfft) == IF 2 * j < nfft THEN j ELSE nfft - j

\* Cut-off frequencies are c / FreqUnit Hz.  A cut-off of 0 is replaced by
\* sys.float_info.epsilon, which lies between the bin 0 and every other bin.
FreqUnit == 8
FreqLeq(k, nfft, dt, c) == IF c = 0 THEN k = 0 ELSE FreqUnit * k <= c * nfft * dt
FreqGeq(k, nfft, dt, c) == IF c = 0 THEN k > 0 ELSE FreqUnit * k >= c * nfft * dt

LowpassMask(k, nfft, dt, fc) == IF FreqLeq(k, nfft, dt, fc) THEN 1 ELSE 0
HighpassMask(k, nfft, dt, fc) == IF FreqGeq(k, nfft, dt, fc) THEN 1 ELSE 0
BandpassMask(k, nfft, dt, flow, fupp) ==
    IF FreqGeq(k, nfft, dt, flow) /\ FreqLeq(k, nfft, dt, fupp) THEN 1 ELSE 0
BandblockMask_strict(k, nfft, dt, flow, fupp) ==
    IF FreqUnit * k > flow * nfft * dt /\ FreqLeq(k, nfft, dt, fupp) THEN 0 ELSE 1
BandblockMask(k, nfft, dt, flow, fupp) ==
    IF FreqGeq(k, nfft, dt, flow) /\ FreqLeq(k, nfft, dt, fupp) THEN 0 ELSE 1

\* the input array: samples s[k] + imag * 1j when dtype is complex
Samples(s, imag) == [k \in 1..Len(s) |-> <<s[k], imag>>]
AllReal(z) == \A k \in 1..Len(z) : z[k][2] = 0

\* a filtered signal is the samples y[k] / den; h is the gain mask
Filtered(dtype, y, den, h) == [status |-> "ok", dtype |-> dtype, y |-> y, den |-> den, h |-> h]
FilterError(err) == [status |-> "error", err |-> err]

\* the skeleton shared by lowpass, highpass, bandpass and bandblock; hr is the
\* gain at each position of rfftfreq, hc the gain at each position of fftfreq
FftFilter(s, dtype, imag, hr, hc) ==
    LET z == Samples(s, imag)
        n == Len(s)
        nfft == Nfft(n)
    IN  IF AllReal(z)
        THEN IF dtype = "complex" THEN FilterError("TypeError")
             ELSE IF nfft = 0 THEN FilterError("ValueError")
             ELSE LET fa == Rfft(ZeroPad(z, nfft))
                      x1 == Irfft([j \in 1..nfft |-> fa[j] * hr[j]])
                  IN  Filtered("float", FwdSlice(x1, 0, n), nfft, hr)
        ELSE LET fa == Dft(ZeroPad(z, nfft))
                 x1 == InvDft([j \in 1..nfft |-> CScale(hc[j], fa[j])])
             IN  Filtered("complex", FwdSlice(x1, 0, n), nfft, hc)

lowpass(s, dtype, imag, dt, fc) ==
    LET nfft == Nfft(Len(s))
    IN  FftFilter(s, dtype, imag,
            [j \in 1..nfft |-> LowpassMask(RfftBin(j - 1, nfft), nfft, dt, fc)],
            [j \in 1..nfft |-> LowpassMask(FftBin(j - 1, nfft), nfft, dt, fc)])

highpass(s, dtype, imag, dt, fc) ==
    LET nfft == Nfft(Len(s))
    IN  FftFilter(s, dtype, imag,
            [j \in 1..nfft |-> HighpassMask(RfftBin(j - 1, nfft), nfft, dt, fc)],
            [j \in 1..nfft |-> HighpassMask(FftBin(j - 1, nfft), nfft, dt, fc)])

bandpass(s, dtype, imag, dt, flow, fupp) ==
    LET nfft == Nfft(Len(s))
    IN  FftFilter(s, dtype, imag,
            [j \in 1..nfft |-> BandpassMask(RfftBin(j - 1, nfft), nfft, dt, flow, fupp)],
            [j \in 1..nfft |-> BandpassMask(FftBin(j - 1, nfft), nfft, dt, flow, fupp)])

bandblock(s, dtype, imag, dt, flow, fupp) ==
    LET nfft == Nfft(Len(s))
    IN  FftFilter(s, dtype, imag,
            [j \in 1..nfft |-> BandblockMask(RfftBin(j - 1, nfft), nfft, dt, flow, fupp)],
            [j \in 1..nfft |-> BandblockMask(FftBin(j - 1, nfft), nfft, dt, flow, fupp)])

\* threshold(x, (lth, uth)) with lth = l / FracUnit and uth = u / FracUnit
FracUnit == 2
Norm2(a) == a[1] * a[1] + a[2] * a[2]

threshold_filter(s, dtype, imag, l, u) ==
    LET z == Samples(s, imag)
        n == Len(s)
        nfft == Nfft(n)
    IN  IF AllReal(z)
        THEN IF dtype = "complex" THEN FilterError("TypeError")
             ELSE IF nfft = 0 THEN FilterError("ValueError")
             ELSE LET fa == Rfft(ZeroPad(z, nfft))
                      top == SetMax({Abs(fa[j]) : j \in 1..nfft})
                      h == [j \in 1..nfft |->
                              IF /\ l * top < FracUnit * Abs(fa[j])
                                 /\ FracUnit * Abs(fa[j]) <= u * top
                              THEN 1 ELSE 0]
                      x1 == Irfft([j \in 1..nfft |-> fa[j] * h[j]])
                  IN  Filtered("float", FwdSlice(x1, 0, n), nfft, h)
        ELSE LET fa == Dft(ZeroPad(z, nfft))
                 top2 == SetMax({Norm2(fa[j]) : j \in 1..nfft})
                 h == [j \in 1..nfft |->
                         IF /\ l * l * top2 < FracUnit * FracUnit * Norm2(fa[j])
                            /\ FracUnit * FracUnit * Norm2(fa[j]) <= u * u * top2
                         THEN 1 ELSE 0]
                 x1 == InvDft([j \in 1..nfft |-> CScale(h[j], fa[j])])
             IN  Filtered("complex", FwdSlice(x1, 0, n), nfft, h)

\* ---- state machine: one call on the input drawn by Init ----
NoCall == [fn |-> "none"]
NoRet == [status |-> "none"]
NoIterator == [lags |-> <<>>, pos |-> 0]

Init ==
    /\ x \in Signals
    /\ pc = "idle"
    /\ call = NoCall
    /\ ret = NoRet
    /\ acf = NoIterator
    /\ passes = <<>>

CallFindMaxima ==
    /\ pc = "idle"
    /\ \E local \in BOOL, threshold \in Thresholds, up \in BOOL, retind \in BOOL :
         /\ call' = [fn |-> "find_maxima", local |-> local, threshold |-> threshold,
                     up |-> up, retind |-> retind]
         /\ ret' \in find_maxima(x, local, threshold, up, retind)
    /\ pc' = "done"
    /\ UNCHANGED <<x, acf, passes>>

CallAverageFrequency ==
    /\ pc = "idle"
    /\ \E dt \in 1..MaxDt, up \in BOOL :
         /\ call' = [fn |-> "average_frequency", dt |-> dt, up |-> up]
         /\ ret' = average_frequency(TimeVector(Len(x), dt), x, up)
    /\ pc' = "done"
    /\ UNCHANGED <<x, acf, passes>>

CallAutocorrelation ==
    /\ pc = "idle"
    /\ call' = [fn |-> "autocorrelation"]
    /\ acf' = autocorrelation(x)
    /\ ret' = [status |-> "ok"]
    /\ pc' = "done"
    /\ UNCHANGED <<x, passes>>

\* the caller iterates over the returned object: a pass is the items one loop received
Looping == passes # <<>> /\ passes[Len(passes)].state = "running"

StartLoop ==
    /\ pc = "done" /\ call.fn = "autocorrelation"
    /\ ~Looping
    /\ Len(passes) < MaxPasses
    /\ passes' = Append(passes, [items |-> <<>>, state |-> "running"])
    /\ UNCHANGED <<x, pc, call, ret, acf>>

\* next(acf) returns r of the next lag
NextItem ==
    /\ Looping
    /\ acf.pos <= Len(acf.lags)
    /\ passes' = [passes EXCEPT ![Len(passes)].items = Append(@, r(x, acf.lags[acf.pos]))]
    /\ acf' = [acf EXCEPT !.pos = @ + 1]
    /\ UNCHANGED <<x, pc, call, ret>>

\* next(acf) raises StopIteration, which ends the loop
StopIteration ==
    /\ Looping
    /\ acf.pos > Len(acf.lags)
    /\ passes' = [passes EXCEPT ![Len(passes)].state = "exhausted"]
    /\ UNCHANGED <<x, pc, call, ret, acf>>

\* the caller leaves the loop early
BreakLoop ==
    /\ Looping
    /\ passes' = [passes EXCEPT ![Len(passes)].state = "left"]
    /\ UNCHANGED <<x, pc, call, ret, acf>>

CallSmooth ==
    /\ pc = "idle"
    /\ \E ndim \in 1..2, window_len \in 1..MaxWin, window \in WindowNames, mode \in Modes :
         /\ call' = [fn |-> "smooth", ndim |-> ndim, window_len |-> window_len,
                     window |-> window, mode |-> mode]
         /\ ret' = smooth(x, ndim, window_len, window, mode)
    /\ pc' = "done"
    /\ UNCHANGED <<x, acf, passes>>

Next ==
    \/ CallFindMaxima
    \/ CallAverageFrequency
    \/ CallAutocorrelation
    \/ StartLoop
    \/ NextItem
    \/ StopIteration
    \/ BreakLoop
    \/ CallSmooth

Spec == Init /\ [][Next]_vars

\* ---- the filters, called on the signals of up to MaxFftLen samples ----
InputTypes == {[dtype |-> "float", imag |-> 0]} \cup [dtype : {"complex"}, imag : 0..MaxImag]

FilterInit == Init /\ Len(x) <= MaxFftLen

CallLowpass ==
    /\ pc = "idle"
    /\ \E ty \in InputTypes, dt \in 1..MaxDt, fc \in 0..MaxCut :
         /\ call' = [fn |-> "lowpass", dtype |-> ty.dtype, imag |-> ty.imag, dt |-> dt, fc |-> fc]
         /\ ret' = lowpass(x, ty.dtype, ty.imag, dt, fc)
    /\ pc' = "done"
    /\ UNCHANGED <<x, acf, passes>>

CallHighpass ==
    /\ pc = "idle"
    /\ \E ty \in InputTypes, dt \in 1..MaxDt, fc \in 0..MaxCut :
         /\ call' = [fn |-> "highpass", dtype |-> ty.dtype, imag |-> ty.imag, dt |-> dt, fc |-> fc]
         /\ ret' = highpass(x, ty.dtype, ty.imag, dt, fc)
    /\ pc' = "done"
    /\ UNCHANGED <<x, acf, passes>>

CallBandpass ==
    /\ pc = "idle"
    /\ \E ty \in InputTypes, dt \in 1..MaxDt, flow \in 0..MaxCut, fupp \in 0..MaxCut :
         /\ call' = [fn |-> "bandpass", dtype |-> ty.dtype, imag |-> ty.imag, dt |-> dt,
                     flow |-> flow, fupp |-> fupp]
         /\ ret' = bandpass(x, ty.dtype, ty.imag, dt, flow, fupp)
    /\ pc' = "done"
    /\ UNCHANGED <<x, acf, passes>>

CallBandblock ==
    /\ pc = "idle"
    /\ \E ty \in InputTypes, dt \in 1..MaxDt, flow \in 0..MaxCut, fupp \in 0..MaxCut :
         /\ call' = [fn |-> "bandblock", dtype |-> ty.dtype, imag |-> ty.imag, dt |-> dt,
                     flow |-> flow, fupp |-> fupp]
         /\ ret' = bandblock(x, ty.dtype, ty.imag, dt, flow, fupp)
    /\ pc' = "done"
    /\ UNCHANGED <<x, acf, passes>>

CallThreshold ==
    /\ pc = "idle"
    /\ \E ty \in InputTypes, l \in 0..MaxFrac, u \in 0..MaxFrac :
         /\ call' = [fn |-> "threshold", dtype |-> ty.dtype, imag |-> ty.imag, l |-> l, u |-> u]
         /\ ret' = threshold_filter(x, ty.dtype, ty.imag, l, u)
    /\ pc' = "done"
    /\ UNCHANGED <<x, acf, passes>>

FilterNext ==
    \/ CallLowpass
    \/ CallHighpass
    \/ CallBandpass
    \/ CallBandblock
    \/ CallThreshold

FilterSpec == FilterInit /\ [][FilterNext]_vars

\* ---- the terms of the specification, stated on the signal alone ----
\* up-crossing: the demeaned signal goes from non-positive to positive at sample i
IsUpCrossing(s, i) ==
    /\ i \in 1..(Len(s) - 1)
    /\ Len(s) * At(s, i - 1) <= Sum(s)
    /\ Len(s) * At(s, i) > Sum(s)

\* down-crossing: the demeaned signal goes from not below the mean to below it at sample i
IsDownCrossing(s, i) ==
    /\ i \in 1..(Len(s) - 1)
    /\ Len(s) * At(s, i - 1) >= Sum(s)
    /\ Len(s) * At(s, i) < Sum(s)

UpCrossingSet(s) == {i \in 0..(Len(s) - 1) : IsUpCrossing(s, i)}
DownCrossingSet(s) == {i \in 0..(Len(s) - 1) : IsDownCrossing(s, i)}
RequestedCrossings(s, up) == IF up THEN UpCrossingSet(s) ELSE DownCrossingSet(s)

\* two crossings of a set with no crossing of the set between them
Consecutive(S, a, b) == a \in S /\ b \in S /\ a < b /\ ~(\E c \in S : a < c /\ c < b)

Called(fn) == pc = "done" /\ call.fn = fn
IsEmptyResult == ret.status = "ok" /\ ret.maxima = <<>> /\ ret.indices = <<>>
Values(m) == {m[k] : k \in 1..Len(m)}

\* C1: find_maxima(x, up=False) in global mode without threshold, on a signal
\* with at least two down-crossings, returns a non-empty array that holds the
\* largest sample between each pair of consecutive down-crossings.
C1_MaximaBetweenDownCrossings ==
    (/\ Called("find_maxima")
     /\ ~call.up /\ ~call.local /\ call.threshold = NoThreshold
     /\ Cardinality(DownCrossingSet(x)) >= 2)
    => /\ ret.status = "ok"
       /\ ret.maxima # <<>>
       /\ \A a, b \in DownCrossingSet(x) :
            Consecutive(DownCrossingSet(x), a, b) =>
                ArrMax(Slice(x, a, b)) \in Values(ret.maxima)

\* the boundaries find_maxima segments the signal with: the crossings of the
\* requested direction and the final sample index
Boundaries(s, up) == RequestedCrossings(s, up) \cup {Len(s) - 1}

IsSegmentMaximum(s, up, value, index) ==
    \E a, b \in Boundaries(s, up) :
        /\ Consecutive(Boundaries(s, up), a, b)
        /\ a <= index /\ index < b
        /\ value = ArrMax(Slice(s, a, b))

\* a turning point: not lower than the sample before, higher than the sample after
IsTurningPoint(s, index) ==
    /\ 1 <= index /\ index <= Len(s) - 2
    /\ At(s, index - 1) <= At(s, index)
    /\ At(s, index) > At(s, index + 1)

\* C2: every (value, index) pair returned with retind=True has its index inside
\* x, x[index] = value, and is an extremum of the chosen class: the largest
\* sample of a segment between consecutive boundaries (global) or a turning
\* point of x (local).
C2_PairsAreExtrema ==
    (Called("find_maxima") /\ call.retind /\ ret.status = "ok")
    => /\ Len(ret.indices) = Len(ret.maxima)
       /\ \A k \in 1..Len(ret.maxima) :
            /\ 0 <= ret.indices[k] /\ ret.indices[k] < Len(x)
            /\ At(x, ret.indices[k]) = ret.maxima[k]
            /\ IF call.local
               THEN IsTurningPoint(x, ret.indices[k])
               ELSE IsSegmentMaximum(x, call.up, ret.maxima[k], ret.indices[k])

\* C3: with fewer than 2 crossings of the mean in the requested direction,
\* find_maxima returns empty arrays and raises no error, in global and in local mode.
C3_FewCrossingsEmpty ==
    (Called("find_maxima") /\ Cardinality(RequestedCrossings(x, call.up)) < 2)
    => IsEmptyResult

C3_Witness ==
    /\ Called("find_maxima")
    /\ call.up /\ call.local /\ call.retind
    /\ Cardinality(UpCrossingSet(x)) = 1
    /\ IsEmptyResult

\* a periodic signal spanning several cycles, with one up-crossing per cycle
IsPeriodic(s, period) ==
    /\ period >= 2
    /\ Len(s) >= 2 * period
    /\ \A k \in 1..(Len(s) - period) : s[k] = s[k + period]
    /\ \A a, b \in UpCrossingSet(s) : Consecutive(UpCrossingSet(s), a, b) => b - a = period

Periodic(s) == \E period \in 2..Len(s) : IsPeriodic(s, period)
CountOf(m, v) == Cardinality({k \in 1..Len(m) : m[k] = v})

PeriodicGlobalUpCall ==
    /\ Called("find_maxima")
    /\ call.up /\ ~call.local /\ call.threshold = NoThreshold
    /\ Periodic(x)
    /\ Cardinality(UpCrossingSet(x)) >= 2

IsAscending(m) == \A a, b \in 1..Len(m) : a < b => m[a] <= m[b]

\* C5: the returned maxima are sorted ascending, and with retind=True position
\* i of the index array is the position in x of maxima[i].
C5_SortedWithIndices ==
    (Called("find_maxima") /\ ret.status = "ok")
    => /\ IsAscending(ret.maxima)
       /\ call.retind =>
            /\ Len(ret.indices) = Len(ret.maxima)
            /\ \A k \in 1..Len(ret.maxima) :
                 /\ ret.indices[k] \in 0..(Len(x) - 1)
                 /\ At(x, ret.indices[k]) = ret.maxima[k]

\* C6: average_frequency fails with an error whenever x has fewer than 2
\* crossings of its mean in the requested direction; it returns no value.
C6_FewCrossingsError ==
    (Called("average_frequency") /\ Cardinality(RequestedCrossings(x, call.up)) < 2)
    => ret.status = "error"

\* C7: with at least 2 crossings in the requested direction, average_frequency
\* returns (k - 1) / (t[last crossing] - t[first crossing]), k counting the
\* crossings of the requested direction only.
C7_AverageFrequencyValue ==
    (Called("average_frequency") /\ Cardinality(RequestedCrossings(x, call.up)) >= 2)
    => LET S == RequestedCrossings(x, call.up)
           t == TimeVector(Len(x), call.dt)
       IN  /\ ret.status = "ok"
           /\ ret.num * (At(t, SetMax(S)) - At(t, SetMin(S))) = (Cardinality(S) - 1) * ret.den

\* the coefficients of the lags 1 .. n - 1, in order
CoefficientsFromLagOne(s) == [h \in 1..(Len(s) - 1) |-> r(s, h)]

\* C8: autocorrelation(series) yields exactly n - 1 coefficients, one for each
\* lag h = 1 .. n - 1 in order; lag 0 is excluded.
C8_LagZeroExcluded ==
    (Called("autocorrelation") /\ Len(passes) >= 1 /\ passes[1].state = "exhausted")
    => passes[1].items = CoefficientsFromLagOne(x)

\* everything the returned object is a sequence of
AllCoefficients == [k \in 1..Len(acf.lags) |-> r(x, acf.lags[k])]

\* C9: the returned sequence is restartable: a later iteration over the same
\* object, after it was fully or partly consumed, yields the full list of
\* coefficients again.
C9_Restartable ==
    Called("autocorrelation")
    => \A k \in 1..Len(passes) :
          passes[k].state = "exhausted" => passes[k].items = AllCoefficients

IsConstant(s) == \A a, b \in 1..Len(s) : s[a] = s[b]

\* the weighted sum of the window centred on sample i of s
Centred(s, w, i) == Sum([j \in 1..Len(w) |-> w[j] * At(s, i - (Len(w) - 1) \div 2 + j - 1)])

\* C10: with len(x) >= window_len >= 3 (len(x) = window_len included),
\* smooth(x, window_len, window, mode='same') returns exactly len(x) samples
\* aligned with x, and a constant signal smoothed with a rectangular window of
\* length 3 is returned as it is.
C10_SameLength ==
    (/\ Called("smooth")
     /\ call.ndim = 1 /\ call.mode = "same" /\ call.window \in Windows
     /\ call.window_len >= 3 /\ Len(x) >= call.window_len)
    => /\ ret.status = "ok"
       /\ Len(ret.y) = Len(x)
       /\ LET w == WindowWeights(call.window, call.window_len)
              h == (call.window_len - 1) \div 2
          IN  call.window_len % 2 = 1 =>
                \A i \in h..(Len(x) - 1 - h) : At(ret.y, i) = Centred(x, w, i)
       /\ (IsConstant(x) /\ call.window = "rectangular" /\ call.window_len = 3)
            => \A k \in 1..Len(ret.y) : ret.y[k] = ret.den * x[k]

\* C12 as stated: without a threshold find_maxima uses the mean of the signal
\* as the threshold: every maximum it returns, in global and in local mode, is
\* at least the mean of x.
C12_DefaultThresholdIsMean ==
    (Called("find_maxima") /\ call.threshold = NoThreshold /\ ret.status = "ok")
    => \A k \in 1..Len(ret.maxima) : Len(x) * ret.maxima[k] >= Sum(x)

\* C13 as stated: find_maxima raises an error for every call in which the
\* threshold is given and is not a float, whatever the signal; with a float
\* threshold exactly the maxima with value >= threshold are kept.
KeptByThreshold ==
    \E u \in find_maxima(x, call.local, NoThreshold, call.up, call.retind) :
        /\ u.status = "ok"
        /\ Len(ret.maxima) = Cardinality({k \in 1..Len(u.maxima) : u.maxima[k] >= call.threshold.val})
        /\ \A v \in Values(u.maxima) \cup Values(ret.maxima) :
             CountOf(ret.maxima, v) = IF v >= call.threshold.val THEN CountOf(u.maxima, v) ELSE 0

C14_ShortWindowNoOp ==
    (Called("smooth") /\ call.ndim = 1 /\ call.window_len < 3)
    => (ret.status = "ok" /\ ret.y = x /\ ret.den = 1)

\* C14 amended: smooth with window_len < 3 returns the 1-D input unchanged when
\* len(x) >= window_len, and raises an error when len(x) < window_len.
C14_ShortWindowNoOpIfLongEnough ==
    (Called("smooth") /\ call.ndim = 1 /\ call.window_len < 3)
    => IF Len(x) >= call.window_len
       THEN ret.status = "ok" /\ ret.y = x /\ ret.den = 1
       ELSE ret.status = "error"

C14_Witness ==
    /\ Called("smooth")
    /\ call.ndim = 1 /\ call.window_len = 2 /\ Len(x) >= 2 /\ ~IsConstant(x)
    /\ ret.status = "ok" /\ ret.y = x

\* C15 as stated: smooth raises an error for every call whose window name is
\* not one of the five names, whatever window_len and x are, and never hands an
\* unrecognised name to eval.
C15_UnknownWindowRaises ==
    (Called("smooth") /\ call.window \notin Windows)
    => (ret.status = "error" /\ ret.evaluated = "none")

\* C15 amended: smooth raises an error for every call whose window name is not
\* one of the five names, except when x is 1-D with len(x) >= window_len and
\* window_len < 3, where the input is returned unchanged; it never hands an
\* unrecognised name to eval.
C15_UnknownWindowRaisesIfSmoothing ==
    (Called("smooth") /\ call.window \notin Windows)
    => /\ ret.evaluated = "none"
       /\ IF call.ndim = 1 /\ Len(x) >= call.window_len /\ call.window_len < 3
          THEN ret.status = "ok" /\ ret.y = x
          ELSE ret.status = "error"

C15_Witness ==
    /\ Called("smooth")
    /\ call.window \notin Windows
    /\ call.ndim = 1 /\ Len(x) >= call.window_len /\ call.window_len >= 3
    /\ ret.status = "error" /\ ret.err = "ValueError" /\ ret.evaluated = "none"

\* C11: bandpass and bandblock are complementary for every flow and fupp
\* (flow = 0, fupp = 0 and flow > fupp included): at every frequency bin exactly
\* one of the two gain masks is 1, and bandpass(x, dt, flow, fupp) +
\* bandblock(x, dt, flow, fupp) reproduces x over the original sample count.
C11_BandsComplementary ==
    (Called("bandpass") /\ ret.status = "ok")
    => LET b == bandblock(x, call.dtype, call.imag, call.dt, call.flow, call.fupp)
       IN  /\ b.status = "ok"
           /\ Len(b.h) = Len(ret.h)
           /\ \A j \in 1..Len(ret.h) : ret.h[j] + b.h[j] = 1
           /\ Len(ret.y) = Len(x) /\ Len(b.y) = Len(x)
           /\ \A k \in 1..Len(x) :
                CAdd(ret.y[k], b.y[k]) = <<ret.den * x[k], ret.den * call.imag>>

\* a band that passes some bins and blocks others, on a zero-padded signal
C11_Witness ==
    /\ Called("bandpass") /\ ret.status = "ok"
    /\ Len(x) = 3 /\ ~IsConstant(x)
    /\ call.flow # 0 /\ call.flow <= call.fupp
    /\ \E j \in 1..Len(ret.h) : ret.h[j] = 1
    /\ \E j \in 1..Len(ret.h) : ret.h[j] = 0

FilterNames == {"lowpass", "highpass", "bandpass", "bandblock", "threshold"}
CalledFilter == pc = "done" /\ call.fn \in FilterNames

\* the smallest power of two >= n
IsPowerOfTwo(m) == \E e \in 0..m : 2 ^ e = m
IsSmallestPowerOfTwo(m, n) == IsPowerOfTwo(m) /\ m >= n /\ m < 2 * n

\* C16 as stated: for every non-empty input, real or complex, each filter
\* returns a real-valued array with exactly len(x) samples, the transform
\* being padded to the smallest power of two >= len(x).
C16_RealOutputOfInputLength ==
    (CalledFilter /\ Len(x) >= 1)
    => /\ ret.status = "ok"
       /\ ret.dtype = "float"
       /\ AllReal(ret.y)
       /\ Len(ret.y) = Len(x)
       /\ IsSmallestPowerOfTwo(ret.den, Len(x))

====
